---- MODULE Spec2Model ----
(***************************************************************************)
(* Core::Account (LibCore/Account.cpp, LibCore/Account.h): an account      *)
(* loaded from /etc/passwd and /etc/shadow, its in-memory password         *)
(* mutators, authenticate(), login(), which takes on the account's groups, *)
(* gid and uid, and sync(), which regenerates both files and installs them *)
(* by rename.                                                              *)
(*                                                                         *)
(* An AK String is a record [null, chars]: the null String and the empty   *)
(* String both have no characters, and only the first has null = TRUE.     *)
(* chars is a sequence of tokens: the one-character tokens "!" and "$",    *)
(* the three-character tag "$5$", a salt (16 base64 characters, never a    *)
(* '$' or a '!'), a digest, or the junk token "x".                         *)
(*                                                                         *)
(* A store file is the sequence of its lines, a line the tuple of its      *)
(* colon-separated fields.                                                 *)
(***************************************************************************)
EXTENDS Naturals, Sequences, FiniteSets, TLC

VARIABLES
    passwd_db,      \* content of /etc/passwd
    shadow_db,      \* content of /etc/shadow
    acct,           \* acct[p]: the Account object of process p
    pc,             \* pc[p]: where process p is
    ret,            \* ret[p]: the last call of p that returned, and its value
    new_passwd_file_content,    \* sync()'s local, per process
    new_shadow_file_content,    \* sync()'s local, per process
    tmp_passwd,     \* the file mkstemp made from "/etc/passwd.XXXXXX", per process
    tmp_shadow,     \* the file mkstemp made from "/etc/shadow.XXXXXX", per process
    at_call,        \* history: both stores as they were when p's latest call began
    last,           \* history: the last password mutator p called, the hash before it
    prev,           \* history: the password mutator p called before that one
    since_delete,   \* history: the mutators p called after its last delete_password()
    grp_cursor,     \* grp_cursor[p]: the group entries getgrent() has handed out in p
    cred,           \* cred[p]: the groups, gid and uid process p runs with
    scanned,        \* history: how the two scans of p's latest lookup ended
    login_hist,     \* history: cred[p] when p's latest login() began, the steps applied
    installed_by    \* history: the process whose rename put each store in place

vars == <<passwd_db, shadow_db, acct, pc, ret, new_passwd_file_content,
          new_shadow_file_content, tmp_passwd, tmp_shadow, at_call, last, prev,
          since_delete, grp_cursor, cred, scanned, login_hist, installed_by>>

-----------------------------------------------------------------------------
(* Bounds *)

\* The longest store file Init draws.
MaxEntries == 3

Procs == {"p1", "p2"}

\* The plaintext passwords callers pass.
Passwords == {"k1", "k2"}

\* The values fill_with_random() + encode_base64() can give get_salt().
Salts == {"s1", "s2"}

-----------------------------------------------------------------------------
(* AK::String *)

Null == [null |-> TRUE, chars |-> <<>>]

Str(cs) == [null |-> FALSE, chars |-> cs]

-----------------------------------------------------------------------------
(* crypt(3), SHA-256 scheme *)

\* The digest of key under salt: one token, a different one for each pair.
Digest(key, salt) == "H(" \o key \o "," \o salt \o ")"

\* The hash string "$5$<salt>$<digest>".
HashString(key, salt) == <<"$5$", salt, "$", Digest(key, salt)>>

\* crypt(key, setting): the setting's tag and salt are parsed out of its
\* first characters, whatever follows them; nullptr when there is no "$5$"
\* tag and salt to parse.
crypt(key, setting) ==
    IF /\ Len(setting.chars) >= 2
       /\ setting.chars[1] = "$5$"
       /\ setting.chars[2] \in Salts
    THEN Str(HashString(key, setting.chars[2]))
    ELSE Null

\* The salt without its "$5$" tag.
get_salt_NoTag(random_data) == Str(<<random_data>>)

\* get_salt(): "$5$" followed by the base64 text of 12 random bytes.
get_salt(random_data) == Str(<<"$5$", random_data>>)

-----------------------------------------------------------------------------
(* Account: the const methods and the mutators, as functions of the hash *)

\* The null and the empty checks the wrong way round.
authenticate_SwapsNullAndEmpty(m_password_hash, password) ==
    IF m_password_hash.null
    THEN TRUE
    ELSE IF m_password_hash.chars = <<>>
    THEN FALSE
    ELSE LET hash == crypt(password, m_password_hash)
         IN  ~hash.null /\ hash.chars = m_password_hash.chars

authenticate(m_password_hash, password) ==
    IF m_password_hash.null
    THEN FALSE
    ELSE IF m_password_hash.chars = <<>>
    THEN TRUE
    ELSE LET hash == crypt(password, m_password_hash)
         IN  ~hash.null /\ hash.chars = m_password_hash.chars

has_password(m_password_hash) ==
    ~(m_password_hash.chars = <<>>) \/ m_password_hash.null

\* The new hash put behind a '!'.
set_password_Locked(password, random_data) ==
    Str(<<"!">> \o crypt(password, get_salt(random_data)).chars)

set_password(password, random_data) == crypt(password, get_salt(random_data))

\* Disabling that leaves the empty hash empty.
set_password_enabled_SkipsEmpty(m_password_hash, enabled) ==
    IF enabled /\ m_password_hash.chars # <<>> /\ m_password_hash.chars[1] = "!"
    THEN Str(SubSeq(m_password_hash.chars, 2, Len(m_password_hash.chars)))
    ELSE IF ~enabled /\ m_password_hash.chars # <<>> /\ m_password_hash.chars[1] # "!"
    THEN Str(<<"!">> \o m_password_hash.chars)
    ELSE m_password_hash

\* Disabling without the check for a '!' that is there already.
set_password_enabled_AlwaysPrepends(m_password_hash, enabled) ==
    IF enabled /\ m_password_hash.chars # <<>> /\ m_password_hash.chars[1] = "!"
    THEN Str(SubSeq(m_password_hash.chars, 2, Len(m_password_hash.chars)))
    ELSE IF ~enabled
    THEN Str(<<"!">> \o m_password_hash.chars)
    ELSE m_password_hash

\* Enabling with substring(0, length - 1): the last character goes, not the '!'.
set_password_enabled_DropsLast(m_password_hash, enabled) ==
    IF enabled /\ m_password_hash.chars # <<>> /\ m_password_hash.chars[1] = "!"
    THEN Str(SubSeq(m_password_hash.chars, 1, Len(m_password_hash.chars) - 1))
    ELSE IF ~enabled /\ (m_password_hash.chars = <<>> \/ m_password_hash.chars[1] # "!")
    THEN Str(<<"!">> \o m_password_hash.chars)
    ELSE m_password_hash

set_password_enabled(m_password_hash, enabled) ==
    IF enabled /\ m_password_hash.chars # <<>> /\ m_password_hash.chars[1] = "!"
    THEN Str(SubSeq(m_password_hash.chars, 2, Len(m_password_hash.chars)))
    ELSE IF ~enabled /\ (m_password_hash.chars = <<>> \/ m_password_hash.chars[1] # "!")
    THEN Str(<<"!">> \o m_password_hash.chars)
    ELSE m_password_hash

\* The hash reset to the null String.
delete_password_SetsNull == Null

delete_password == Str(<<>>)

-----------------------------------------------------------------------------
(* The store files and the libc scans over them *)

\* A line of /etc/passwd, name:marker:uid:gid:gecos:home:shell, as getpwent()
\* hands it out.
passwd_entry(line) ==
    [pw_name |-> line[1], pw_passwd |-> line[2], pw_uid |-> line[3],
     pw_gid |-> line[4], pw_gecos |-> line[5], pw_dir |-> line[6],
     pw_shell |-> line[7]]

\* A line of /etc/shadow, name:hash:last-changed:min:max:warn:inactive:expire:flag,
\* as getspent() hands it out.
spwd_entry(line) ==
    [sp_namp |-> line[1], sp_pwdp |-> Str(line[2]), sp_lstchg |-> line[3],
     sp_min |-> line[4], sp_max |-> line[5], sp_warn |-> line[6],
     sp_inact |-> line[7], sp_expire |-> line[8], sp_flag |-> line[9]]

\* The lowest of the positions in S.
Lowest(S) == CHOOSE i \in S : \A j \in S : i <= j

\* getpwnam(), getpwuid(), getspnam(): the first matching entry.
getpwnam(db, username) ==
    passwd_entry(db[Lowest({i \in 1..Len(db) : db[i][1] = username})])

getpwuid(db, uid) ==
    passwd_entry(db[Lowest({i \in 1..Len(db) : db[i][3] = uid})])

getspnam(db, username) ==
    spwd_entry(db[Lowest({i \in 1..Len(db) : db[i][1] = username})])

has_pwnam(db, username) == \E i \in 1..Len(db) : db[i][1] = username

has_pwuid(db, uid) == \E i \in 1..Len(db) : db[i][3] = uid

\* A line of /etc/group, name:marker:gid:member1,member2,..., as getgrent()
\* hands it out.
group_entry(line) ==
    [gr_name |-> line[1], gr_passwd |-> line[2], gr_gid |-> line[3],
     gr_mem |-> line[4]]

\* /etc/group. No call writes it.
GroupLines ==
    << <<"wheel", "x", 10, <<"alice", "bob">> >>,
       <<"users", "x", 20, <<"carol">> >>,
       <<"audio", "x", 30, <<"dave", "alice">> >> >>

\* The entries getgrent() still hands out, one per call, once it has handed
\* out cursor of them: with no setgrent() before it, the rest of the file.
getgrent(cursor) == SubSeq(GroupLines, cursor + 1, Len(GroupLines))

\* username is one of the members of the group.
IsMember(username, group) ==
    \E i \in 1..Len(group.gr_mem) : group.gr_mem[i] = username

\* get_gids(): the gid of every group getgrent() hands out that lists
\* username, in the order they come.
get_gids(username, cursor) ==
    LET groups == SelectSeq(getgrent(cursor),
                            LAMBDA line : IsMember(username, group_entry(line)))
    IN  [i \in 1..Len(groups) |-> group_entry(groups[i]).gr_gid]

-----------------------------------------------------------------------------
(* Account::Account and the two file generators *)

Account(pwd, spwd, extra_gids) ==
    [m_username |-> pwd.pw_name,
     m_password_hash |-> spwd.sp_pwdp,
     m_uid |-> pwd.pw_uid,
     m_gid |-> pwd.pw_gid,
     m_gecos |-> pwd.pw_gecos,
     m_home_directory |-> pwd.pw_dir,
     m_shell |-> pwd.pw_shell,
     m_extra_gids |-> extra_gids]

\* A String holding file text: null, or the lines built.
NullContent == [null |-> TRUE, lines |-> <<>>]

Content(lines) == [null |-> FALSE, lines |-> lines]

\* Every entry taken for the account's.
generate_passwd_file_MatchesEveryEntry(a, db, errno_set) ==
    IF errno_set
    THEN NullContent
    ELSE Content([i \in 1..Len(db) |->
            <<a.m_username, "!", a.m_uid, a.m_gid, a.m_gecos,
              a.m_home_directory, a.m_shell>>])

\* The marker of the other entries copied from the file.
generate_passwd_file_CopiesMarker(a, db, errno_set) ==
    IF errno_set
    THEN NullContent
    ELSE Content([i \in 1..Len(db) |->
            LET p == passwd_entry(db[i])
            IN  IF p.pw_uid = a.m_uid
                THEN <<a.m_username, "!", a.m_uid, a.m_gid, a.m_gecos,
                       a.m_home_directory, a.m_shell>>
                ELSE <<p.pw_name, p.pw_passwd, p.pw_uid, p.pw_gid, p.pw_gecos,
                       p.pw_dir, p.pw_shell>>])

\* generate_passwd_file(): one line per entry getpwent() gives, in its order;
\* errno_set: the scan ended with errno set.
generate_passwd_file(a, db, errno_set) ==
    IF errno_set
    THEN NullContent
    ELSE Content([i \in 1..Len(db) |->
            LET p == passwd_entry(db[i])
            IN  IF p.pw_uid = a.m_uid
                THEN <<a.m_username, "!", a.m_uid, a.m_gid, a.m_gecos,
                       a.m_home_directory, a.m_shell>>
                ELSE <<p.pw_name, "!", p.pw_uid, p.pw_gid, p.pw_gecos,
                       p.pw_dir, p.pw_shell>>])

\* Every entry written as it is in the file, the account's too.
generate_shadow_file_KeepsStoredHash(a, db, errno_set) ==
    IF errno_set
    THEN NullContent
    ELSE Content([i \in 1..Len(db) |->
            LET p == spwd_entry(db[i])
            IN  <<p.sp_namp, p.sp_pwdp.chars, p.sp_lstchg, p.sp_min, p.sp_max,
                  p.sp_warn, p.sp_inact, p.sp_expire, p.sp_flag>>])

generate_shadow_file(a, db, errno_set) ==
    IF errno_set
    THEN NullContent
    ELSE Content([i \in 1..Len(db) |->
            LET p == spwd_entry(db[i])
            IN  IF p.sp_namp = a.m_username
                THEN <<a.m_username, a.m_password_hash.chars, p.sp_lstchg,
                       p.sp_min, p.sp_max, p.sp_warn, p.sp_inact, p.sp_expire,
                       p.sp_flag>>
                ELSE <<p.sp_namp, p.sp_pwdp.chars, p.sp_lstchg, p.sp_min,
                       p.sp_max, p.sp_warn, p.sp_inact, p.sp_expire,
                       p.sp_flag>>])

-----------------------------------------------------------------------------
(* Initial state *)

\* The first n lines of the text, all of them when it has no more.
FirstLines(lines, n) == SubSeq(lines, 1, IF n < Len(lines) THEN n ELSE Len(lines))

\* The lines /etc/passwd is drawn from. Two of them share uid 1; two still
\* have a marker that is not "!".
PasswdLines ==
    << <<"alice", "!", 1, 1, "Alice", "/home/alice", "/bin/sh">>,
       <<"bob", "x", 2, 2, "Bob", "/home/bob", "/bin/sh">>,
       <<"carol", "x", 1, 3, "Carol", "/home/carol", "/bin/zsh">>,
       <<"dave", "!", 3, 2, "Dave", "/home/dave", "/bin/sh">> >>

\* The lines /etc/shadow is drawn from, in another order: a plain hash, a
\* doubly locked hash, an empty password and a string that is no hash.
ShadowLines ==
    << <<"carol", HashString("k2", "s2"), 30, 2, 92, 9, 6, 7, 8>>,
       <<"alice", <<"!", "!">> \o HashString("k1", "s1"), 10, 0, 90, 7, 1, 2, 0>>,
       <<"bob", <<>>, 20, 1, 91, 8, 3, 4, 5>>,
       <<"dave", <<"x">>, 40, 3, 93, 6, 9, 1, 2>> >>

Usernames == {"alice", "bob", "carol", "dave"}

Uids == {1, 2, 3}

NoAccount ==
    [m_username |-> "", m_password_hash |-> Null, m_uid |-> 0, m_gid |-> 0,
     m_gecos |-> "", m_home_directory |-> "", m_shell |-> "",
     m_extra_gids |-> <<>>]

NoFile == [exists |-> FALSE, open |-> FALSE, mode |-> "", lines |-> <<>>]

NoCall == [op |-> "none", arg |-> "", pre |-> Null]

NoReturn == [op |-> "none", arg |-> "", val |-> ""]

\* The credentials a process starts with: the superuser's.
Root == [groups |-> <<>>, gid |-> 0, uid |-> 0]

NoScan == [pw |-> "none", sp |-> "none"]

Init ==
    /\ passwd_db \in {FirstLines(PasswdLines, n) : n \in 0..MaxEntries}
    /\ shadow_db \in {FirstLines(ShadowLines, n) : n \in 0..MaxEntries}
    /\ acct = [p \in Procs |-> NoAccount]
    /\ pc = [p \in Procs |-> "start"]
    /\ ret = [p \in Procs |-> NoReturn]
    /\ new_passwd_file_content = [p \in Procs |-> NullContent]
    /\ new_shadow_file_content = [p \in Procs |-> NullContent]
    /\ tmp_passwd = [p \in Procs |-> NoFile]
    /\ tmp_shadow = [p \in Procs |-> NoFile]
    /\ at_call = [p \in Procs |-> <<passwd_db, shadow_db>>]
    /\ last = [p \in Procs |-> NoCall]
    /\ prev = [p \in Procs |-> NoCall]
    /\ since_delete = [p \in Procs |-> [deleted |-> FALSE, calls |-> {}]]
    /\ grp_cursor = [p \in Procs |-> 0]
    /\ cred = [p \in Procs |-> Root]
    /\ scanned = [p \in Procs |-> NoScan]
    /\ login_hist = [p \in Procs |-> [from |-> Root, applied |-> <<>>]]
    /\ installed_by = [passwd |-> "none", shadow |-> "none"]

syncVars == <<new_passwd_file_content, new_shadow_file_content, tmp_passwd,
              tmp_shadow>>

historyVars == <<last, prev, since_delete>>

storeVars == <<passwd_db, shadow_db>>

identityVars == <<cred, login_hist>>

lookupVars == <<grp_cursor, scanned>>

\* What sync() has no hand in: the caller's history, its credentials and the
\* state of its scans.
callerVars == <<historyVars, identityVars, lookupVars>>

-----------------------------------------------------------------------------
(* Account::from_name, Account::from_uid *)

Returns(p, op, arg, val) ==
    ret' = [ret EXCEPT ![p] = [op |-> op, arg |-> arg, val |-> val]]

\* History: how the scan for the passwd entry and the scan for the shadow
\* entry ended: "found", "absent", "fault", or "none" for a scan not made.
Scanned(p, pw, sp) == scanned' = [scanned EXCEPT ![p] = [pw |-> pw, sp |-> sp]]

\* The lookup failed: the caller gets the error String and no Account.
LookupFails(p, op, message) ==
    /\ Returns(p, op, "", message)
    /\ UNCHANGED <<acct, pc, grp_cursor>>

\* from_passwd(): get_gids() scans from where the group stream stands, and
\* its endgrent() closes the stream.
from_passwd(p, op, pwd, spwd) ==
    /\ acct' = [acct EXCEPT ![p] =
                  Account(pwd, spwd, get_gids(pwd.pw_name, grp_cursor[p]))]
    /\ grp_cursor' = [grp_cursor EXCEPT ![p] = 0]
    /\ pc' = [pc EXCEPT ![p] = "idle"]
    /\ Returns(p, op, "", "ok")

\* errno is set to 0 once, before the first scan. A scan that finds its entry
\* may leave errno at any value, and a scan that finds none leaves errno as
\* it was: errno_stale is errno # 0 when the second scan comes back empty.
from_name(p, username) ==
    /\ pc[p] = "start"
    /\ \/ \* getpwnam() fails with errno set
          /\ Scanned(p, "fault", "none")
          /\ LookupFails(p, "from_name", "strerror")
       \/ /\ ~has_pwnam(passwd_db, username)
          /\ Scanned(p, "absent", "none")
          /\ LookupFails(p, "from_name", "No such user")
       \/ \* getspnam() fails with errno set
          /\ has_pwnam(passwd_db, username)
          /\ Scanned(p, "found", "fault")
          /\ LookupFails(p, "from_name", "strerror")
       \/ /\ has_pwnam(passwd_db, username)
          /\ ~has_pwnam(shadow_db, username)
          /\ Scanned(p, "found", "absent")
          /\ \E errno_stale \in BOOLEAN :
                LookupFails(p, "from_name",
                            IF errno_stale THEN "strerror" ELSE "No such user")
       \/ /\ has_pwnam(passwd_db, username)
          /\ has_pwnam(shadow_db, username)
          /\ Scanned(p, "found", "found")
          /\ from_passwd(p, "from_name", getpwnam(passwd_db, username),
                         getspnam(shadow_db, username))
    /\ UNCHANGED <<storeVars, syncVars, at_call, historyVars, identityVars,
                   installed_by>>

from_uid(p, uid) ==
    /\ pc[p] = "start"
    /\ \/ \* getpwuid() fails with errno set
          /\ Scanned(p, "fault", "none")
          /\ LookupFails(p, "from_uid", "strerror")
       \/ /\ ~has_pwuid(passwd_db, uid)
          /\ Scanned(p, "absent", "none")
          /\ LookupFails(p, "from_uid", "No such user")
       \/ \* getspnam() fails with errno set
          /\ has_pwuid(passwd_db, uid)
          /\ Scanned(p, "found", "fault")
          /\ LookupFails(p, "from_uid", "strerror")
       \/ /\ has_pwuid(passwd_db, uid)
          /\ ~has_pwnam(shadow_db, getpwuid(passwd_db, uid).pw_name)
          /\ Scanned(p, "found", "absent")
          /\ \E errno_stale \in BOOLEAN :
                LookupFails(p, "from_uid",
                            IF errno_stale THEN "strerror" ELSE "No such user")
       \/ /\ has_pwuid(passwd_db, uid)
          /\ has_pwnam(shadow_db, getpwuid(passwd_db, uid).pw_name)
          /\ Scanned(p, "found", "found")
          /\ from_passwd(p, "from_uid", getpwuid(passwd_db, uid),
                         getspnam(shadow_db, getpwuid(passwd_db, uid).pw_name))
    /\ UNCHANGED <<storeVars, syncVars, at_call, historyVars, identityVars,
                   installed_by>>

-----------------------------------------------------------------------------
(* The calls on a loaded Account *)

Bool(b) == IF b THEN "true" ELSE "false"

\* History: p calls the password mutator op with arg.
Mutates(p, op, arg) ==
    /\ prev' = [prev EXCEPT ![p] = last[p]]
    /\ last' = [last EXCEPT ![p] =
                  [op |-> op, arg |-> arg, pre |-> acct[p].m_password_hash]]
    /\ since_delete' = [since_delete EXCEPT ![p] =
          IF op = "delete_password"
          THEN [deleted |-> TRUE, calls |-> {}]
          ELSE IF ~since_delete[p].deleted
          THEN since_delete[p]
          ELSE [@ EXCEPT !.calls =
                  @ \cup {<<op, IF op = "set_password" THEN "" ELSE arg>>}]]

\* p calls a method of its Account.
Calls(p) ==
    /\ pc[p] = "idle"
    /\ at_call' = [at_call EXCEPT ![p] = <<passwd_db, shadow_db>>]

Authenticate(p, password) ==
    /\ Calls(p)
    /\ Returns(p, "authenticate", password,
               Bool(authenticate(acct[p].m_password_hash, password)))
    /\ UNCHANGED <<acct, pc, storeVars, syncVars, identityVars, lookupVars,
                   installed_by>>

SetPassword(p, password, random_data) ==
    /\ Calls(p)
    /\ acct' = [acct EXCEPT ![p].m_password_hash =
                  set_password(password, random_data)]
    /\ Returns(p, "set_password", password, "void")
    /\ UNCHANGED <<pc, storeVars, syncVars, identityVars, lookupVars,
                   installed_by>>

SetPasswordEnabled(p, enabled) ==
    /\ Calls(p)
    /\ acct' = [acct EXCEPT ![p].m_password_hash =
                  set_password_enabled(acct[p].m_password_hash, enabled)]
    /\ Returns(p, "set_password_enabled", Bool(enabled), "void")
    /\ UNCHANGED <<pc, storeVars, syncVars, identityVars, lookupVars,
                   installed_by>>

\* The empty hash put in /etc/shadow by the setter itself.
DeletePassword_WritesShadow(p) ==
    /\ Calls(p)
    /\ acct' = [acct EXCEPT ![p].m_password_hash = delete_password]
    /\ shadow_db' = generate_shadow_file(
                        [acct[p] EXCEPT !.m_password_hash = delete_password],
                        shadow_db, FALSE).lines
    /\ Returns(p, "delete_password", "", "void")
    /\ UNCHANGED <<pc, passwd_db, syncVars, identityVars, lookupVars,
                   installed_by>>

DeletePassword(p) ==
    /\ Calls(p)
    /\ acct' = [acct EXCEPT ![p].m_password_hash = delete_password]
    /\ Returns(p, "delete_password", "", "void")
    /\ UNCHANGED <<pc, storeVars, syncVars, identityVars, lookupVars,
                   installed_by>>

-----------------------------------------------------------------------------
(* Account::login, step by step *)

Goto(p, label) == pc' = [pc EXCEPT ![p] = label]

\* The kernel lets the superuser set any identity, and anyone the gid or uid
\* it has already.
MaySet(p, current, target) == cred[p].uid = 0 \/ current = target

\* History: the step of login() took effect.
Applied(p, step) ==
    login_hist' = [login_hist EXCEPT ![p].applied = Append(@, step)]

\* login() is called: setgroups(m_extra_gids.size(), m_extra_gids.data())
LoginSetgroups(p) ==
    /\ Calls(p)
    /\ \/ /\ cred[p].uid = 0
          /\ cred' = [cred EXCEPT ![p].groups = acct[p].m_extra_gids]
          /\ login_hist' = [login_hist EXCEPT ![p] =
                [from |-> cred[p], applied |-> <<"setgroups">>]]
          /\ Goto(p, "setgid")
          /\ UNCHANGED ret
       \/ \* setgroups() < 0
          /\ login_hist' = [login_hist EXCEPT ![p] =
                [from |-> cred[p], applied |-> <<>>]]
          /\ Returns(p, "login", "", "false")
          /\ UNCHANGED <<cred, pc>>
    /\ UNCHANGED <<acct, storeVars, syncVars, historyVars, lookupVars,
                   installed_by>>

\* The failure of setgid() not returned: login() goes on to setuid().
LoginSetgid_IgnoresFailure(p) ==
    /\ pc[p] = "setgid"
    /\ \/ /\ MaySet(p, cred[p].gid, acct[p].m_gid)
          /\ cred' = [cred EXCEPT ![p].gid = acct[p].m_gid]
          /\ Applied(p, "setgid")
       \/ UNCHANGED <<cred, login_hist>>
    /\ Goto(p, "setuid")
    /\ UNCHANGED <<acct, ret, storeVars, syncVars, historyVars, lookupVars,
                   installed_by, at_call>>

\* setgid(m_gid)
LoginSetgid(p) ==
    /\ pc[p] = "setgid"
    /\ \/ /\ MaySet(p, cred[p].gid, acct[p].m_gid)
          /\ cred' = [cred EXCEPT ![p].gid = acct[p].m_gid]
          /\ Applied(p, "setgid")
          /\ Goto(p, "setuid")
          /\ UNCHANGED ret
       \/ \* setgid() < 0
          /\ Returns(p, "login", "", "false")
          /\ Goto(p, "idle")
          /\ UNCHANGED <<cred, login_hist>>
    /\ UNCHANGED <<acct, storeVars, syncVars, historyVars, lookupVars,
                   installed_by, at_call>>

\* setuid(m_uid)
LoginSetuid(p) ==
    /\ pc[p] = "setuid"
    /\ \/ /\ MaySet(p, cred[p].uid, acct[p].m_uid)
          /\ cred' = [cred EXCEPT ![p].uid = acct[p].m_uid]
          /\ Applied(p, "setuid")
          /\ Returns(p, "login", "", "true")
       \/ \* setuid() < 0
          /\ Returns(p, "login", "", "false")
          /\ UNCHANGED <<cred, login_hist>>
    /\ Goto(p, "idle")
    /\ UNCHANGED <<acct, storeVars, syncVars, historyVars, lookupVars,
                   installed_by, at_call>>

-----------------------------------------------------------------------------
(* Account::sync, step by step *)

\* VERIFY_NOT_REACHED() or a failed VERIFY(): the process is gone, its file
\* descriptors with it; files it made stay where they are.
Crash(p, passwd_file, shadow_file) ==
    /\ Goto(p, "crashed")
    /\ tmp_passwd' = [tmp_passwd EXCEPT ![p] = [passwd_file EXCEPT !.open = FALSE]]
    /\ tmp_shadow' = [tmp_shadow EXCEPT ![p] = [shadow_file EXCEPT !.open = FALSE]]

\* The first n lines of the text.
Written(content, n) == SubSeq(content.lines, 1, n)

\* sync() is called: generate_passwd_file(). The temporary files of an
\* earlier call have other names and are no longer followed.
SyncGeneratePasswd(p) ==
    /\ Calls(p)
    /\ \E errno_set \in BOOLEAN :
          new_passwd_file_content' = [new_passwd_file_content EXCEPT ![p] =
              generate_passwd_file(acct[p], passwd_db, errno_set)]
    /\ new_shadow_file_content' = [new_shadow_file_content EXCEPT ![p] = NullContent]
    /\ tmp_passwd' = [tmp_passwd EXCEPT ![p] = NoFile]
    /\ tmp_shadow' = [tmp_shadow EXCEPT ![p] = NoFile]
    /\ Goto(p, "generate_shadow")
    /\ UNCHANGED <<acct, ret, storeVars, callerVars, installed_by>>

\* generate_shadow_file(), then the check that neither text is null.
SyncGenerateShadow(p) ==
    /\ pc[p] = "generate_shadow"
    /\ \E errno_set \in BOOLEAN :
          LET content == generate_shadow_file(acct[p], shadow_db, errno_set)
          IN  /\ new_shadow_file_content' =
                    [new_shadow_file_content EXCEPT ![p] = content]
              /\ IF new_passwd_file_content[p].null \/ content.null
                 THEN Goto(p, "crashed")
                 ELSE Goto(p, "mkstemp_passwd")
    /\ UNCHANGED <<acct, ret, storeVars, callerVars, installed_by,
                   new_passwd_file_content, tmp_passwd, tmp_shadow, at_call>>

\* The real file opened and truncated where the temporary one should be made.
SyncMkstempPasswd_TruncatesStore(p) ==
    /\ pc[p] = "mkstemp_passwd"
    /\ \/ /\ tmp_passwd' = [tmp_passwd EXCEPT ![p] =
                [exists |-> TRUE, open |-> TRUE, mode |-> "0600", lines |-> <<>>]]
          /\ passwd_db' = <<>>
          /\ Goto(p, "mkstemp_shadow")
          /\ UNCHANGED tmp_shadow
       \/ /\ Crash(p, tmp_passwd[p], tmp_shadow[p])
          /\ UNCHANGED passwd_db
    /\ UNCHANGED <<acct, ret, shadow_db, callerVars, installed_by,
                   new_passwd_file_content, new_shadow_file_content, at_call>>

SyncMkstempPasswd(p) ==
    /\ pc[p] = "mkstemp_passwd"
    /\ \/ /\ tmp_passwd' = [tmp_passwd EXCEPT ![p] =
                [exists |-> TRUE, open |-> TRUE, mode |-> "0600", lines |-> <<>>]]
          /\ Goto(p, "mkstemp_shadow")
          /\ UNCHANGED tmp_shadow
       \/ \* mkstemp() < 0
          Crash(p, tmp_passwd[p], tmp_shadow[p])
    /\ UNCHANGED <<acct, ret, storeVars, callerVars, installed_by,
                   new_passwd_file_content, new_shadow_file_content, at_call>>

SyncMkstempShadow(p) ==
    /\ pc[p] = "mkstemp_shadow"
    /\ \/ /\ tmp_shadow' = [tmp_shadow EXCEPT ![p] =
                [exists |-> TRUE, open |-> TRUE, mode |-> "0600", lines |-> <<>>]]
          /\ Goto(p, "fchmod")
          /\ UNCHANGED tmp_passwd
       \/ \* mkstemp() < 0
          Crash(p, tmp_passwd[p], tmp_shadow[p])
    /\ UNCHANGED <<acct, ret, storeVars, callerVars, installed_by,
                   new_passwd_file_content, new_shadow_file_content, at_call>>

SyncFchmod(p) ==
    /\ pc[p] = "fchmod"
    /\ \/ /\ tmp_passwd' = [tmp_passwd EXCEPT ![p].mode = "0644"]
          /\ Goto(p, "write_passwd")
          /\ UNCHANGED tmp_shadow
       \/ \* fchmod() < 0
          Crash(p, tmp_passwd[p], tmp_shadow[p])
    /\ UNCHANGED <<acct, ret, storeVars, callerVars, installed_by,
                   new_passwd_file_content, new_shadow_file_content, at_call>>

\* A short write() taken for a whole one: no VERIFY(nwritten == length).
SyncWritePasswd_AcceptsShortWrite(p) ==
    /\ pc[p] = "write_passwd"
    /\ \/ Crash(p, tmp_passwd[p], tmp_shadow[p])
       \/ \E nwritten \in 0..Len(new_passwd_file_content[p].lines) :
            /\ tmp_passwd' = [tmp_passwd EXCEPT ![p].lines =
                                Written(new_passwd_file_content[p], nwritten)]
            /\ Goto(p, "write_shadow")
            /\ UNCHANGED tmp_shadow
    /\ UNCHANGED <<acct, ret, storeVars, callerVars, installed_by,
                   new_passwd_file_content, new_shadow_file_content, at_call>>

\* write() of the passwd text: it fails, or it writes nwritten of the lines;
\* VERIFY(nwritten == length).
SyncWritePasswd(p) ==
    /\ pc[p] = "write_passwd"
    /\ \/ \* write() < 0
          Crash(p, tmp_passwd[p], tmp_shadow[p])
       \/ \E nwritten \in 0..Len(new_passwd_file_content[p].lines) :
            LET file == [tmp_passwd[p] EXCEPT
                            !.lines = Written(new_passwd_file_content[p], nwritten)]
            IN  IF nwritten = Len(new_passwd_file_content[p].lines)
                THEN /\ tmp_passwd' = [tmp_passwd EXCEPT ![p] = file]
                     /\ Goto(p, "write_shadow")
                     /\ UNCHANGED tmp_shadow
                ELSE Crash(p, file, tmp_shadow[p])
    /\ UNCHANGED <<acct, ret, storeVars, callerVars, installed_by,
                   new_passwd_file_content, new_shadow_file_content, at_call>>

SyncWriteShadow(p) ==
    /\ pc[p] = "write_shadow"
    /\ \/ \* write() < 0
          Crash(p, tmp_passwd[p], tmp_shadow[p])
       \/ \E nwritten \in 0..Len(new_shadow_file_content[p].lines) :
            LET file == [tmp_shadow[p] EXCEPT
                            !.lines = Written(new_shadow_file_content[p], nwritten)]
            IN  IF nwritten = Len(new_shadow_file_content[p].lines)
                THEN /\ tmp_shadow' = [tmp_shadow EXCEPT ![p] = file]
                     /\ Goto(p, "close")
                     /\ UNCHANGED tmp_passwd
                ELSE Crash(p, tmp_passwd[p], file)
    /\ UNCHANGED <<acct, ret, storeVars, callerVars, installed_by,
                   new_passwd_file_content, new_shadow_file_content, at_call>>

\* The end of the block: the two ScopeGuards close both descriptors.
SyncClose(p) ==
    /\ pc[p] = "close"
    /\ tmp_shadow' = [tmp_shadow EXCEPT ![p].open = FALSE]
    /\ tmp_passwd' = [tmp_passwd EXCEPT ![p].open = FALSE]
    /\ Goto(p, "rename_passwd")
    /\ UNCHANGED <<acct, ret, storeVars, callerVars, installed_by,
                   new_passwd_file_content, new_shadow_file_content, at_call>>

\* The first rename's failure not returned: sync() goes on to the second.
SyncRenamePasswd_GoesOnAfterFailure(p) ==
    /\ pc[p] = "rename_passwd"
    /\ \/ /\ passwd_db' = tmp_passwd[p].lines
          /\ tmp_passwd' = [tmp_passwd EXCEPT ![p].exists = FALSE]
          /\ installed_by' = [installed_by EXCEPT !.passwd = p]
       \/ UNCHANGED <<passwd_db, tmp_passwd, installed_by>>
    /\ Goto(p, "rename_shadow")
    /\ UNCHANGED <<acct, ret, shadow_db, callerVars, new_passwd_file_content,
                   new_shadow_file_content, tmp_shadow, at_call>>

\* rename(new_passwd_name, "/etc/passwd")
SyncRenamePasswd(p) ==
    /\ pc[p] = "rename_passwd"
    /\ \/ /\ passwd_db' = tmp_passwd[p].lines
          /\ tmp_passwd' = [tmp_passwd EXCEPT ![p].exists = FALSE]
          /\ installed_by' = [installed_by EXCEPT !.passwd = p]
          /\ Goto(p, "rename_shadow")
          /\ UNCHANGED ret
       \/ \* rename() < 0
          /\ Returns(p, "sync", "", "false")
          /\ Goto(p, "idle")
          /\ UNCHANGED <<passwd_db, tmp_passwd, installed_by>>
    /\ UNCHANGED <<acct, shadow_db, callerVars, new_passwd_file_content,
                   new_shadow_file_content, tmp_shadow, at_call>>

\* The second rename's failure not returned: sync() falls through to true.
SyncRenameShadow_ReportsSuccess(p) ==
    /\ pc[p] = "rename_shadow"
    /\ \/ /\ shadow_db' = tmp_shadow[p].lines
          /\ tmp_shadow' = [tmp_shadow EXCEPT ![p].exists = FALSE]
          /\ installed_by' = [installed_by EXCEPT !.shadow = p]
       \/ UNCHANGED <<shadow_db, tmp_shadow, installed_by>>
    /\ Returns(p, "sync", "", "true")
    /\ Goto(p, "idle")
    /\ UNCHANGED <<acct, passwd_db, callerVars, new_passwd_file_content,
                   new_shadow_file_content, tmp_passwd, at_call>>

\* The account's entry put into /etc/shadow as it is now, the other entries
\* of the file left as they are.
SyncRenameShadow_KeepsOtherEntries(p) ==
    /\ pc[p] = "rename_shadow"
    /\ \/ /\ shadow_db' = generate_shadow_file(acct[p], shadow_db, FALSE).lines
          /\ tmp_shadow' = [tmp_shadow EXCEPT ![p].exists = FALSE]
          /\ installed_by' = [installed_by EXCEPT !.shadow = p]
          /\ Returns(p, "sync", "", "true")
       \/ /\ Returns(p, "sync", "", "false")
          /\ UNCHANGED <<shadow_db, tmp_shadow, installed_by>>
    /\ Goto(p, "idle")
    /\ UNCHANGED <<acct, passwd_db, callerVars, new_passwd_file_content,
                   new_shadow_file_content, tmp_passwd, at_call>>

\* rename(new_shadow_name, "/etc/shadow")
SyncRenameShadow(p) ==
    /\ pc[p] = "rename_shadow"
    /\ \/ /\ shadow_db' = tmp_shadow[p].lines
          /\ tmp_shadow' = [tmp_shadow EXCEPT ![p].exists = FALSE]
          /\ installed_by' = [installed_by EXCEPT !.shadow = p]
          /\ Returns(p, "sync", "", "true")
       \/ \* rename() < 0
          /\ Returns(p, "sync", "", "false")
          /\ UNCHANGED <<shadow_db, tmp_shadow, installed_by>>
    /\ Goto(p, "idle")
    /\ UNCHANGED <<acct, passwd_db, callerVars, new_passwd_file_content,
                   new_shadow_file_content, tmp_passwd, at_call>>

-----------------------------------------------------------------------------
(* One caller at a time: p1 alone runs *)

Lookup(p) ==
    \/ \E username \in Usernames : from_name(p, username)
    \/ \E uid \in Uids : from_uid(p, uid)

Sync(p) ==
    \/ SyncGeneratePasswd(p)
    \/ SyncGenerateShadow(p)
    \/ SyncMkstempPasswd(p)
    \/ SyncMkstempShadow(p)
    \/ SyncFchmod(p)
    \/ SyncWritePasswd(p)
    \/ SyncWriteShadow(p)
    \/ SyncClose(p)
    \/ SyncRenamePasswd(p)
    \/ SyncRenameShadow(p)

Step(p) ==
    \/ Lookup(p)
    \/ \E password \in Passwords :
          Authenticate(p, password) /\ UNCHANGED historyVars
    \/ \E password \in Passwords, random_data \in Salts :
          SetPassword(p, password, random_data) /\ UNCHANGED historyVars
    \/ \E enabled \in BOOLEAN :
          SetPasswordEnabled(p, enabled) /\ UNCHANGED historyVars
    \/ DeletePassword(p) /\ UNCHANGED historyVars
    \/ Sync(p)

Next == Step("p1")

Spec == Init /\ [][Next]_vars

-----------------------------------------------------------------------------
(* The same caller with the history of its password mutators kept, sync()  *)
(* left out                                                                *)

TrackedStep(p) ==
    \/ Lookup(p)
    \/ \E password \in Passwords :
          Authenticate(p, password) /\ UNCHANGED historyVars
    \/ \E password \in Passwords, random_data \in Salts :
          SetPassword(p, password, random_data)
            /\ Mutates(p, "set_password", password)
    \/ \E enabled \in BOOLEAN :
          SetPasswordEnabled(p, enabled)
            /\ Mutates(p, "set_password_enabled", Bool(enabled))
    \/ DeletePassword(p) /\ Mutates(p, "delete_password", "")

TrackedNext == TrackedStep("p1")

SpecTracked == Init /\ [][TrackedNext]_vars

-----------------------------------------------------------------------------
(* A caller that scans the group file itself, looks an account up and logs *)
(* in as it                                                                *)

\* The caller's own getgrent(), before its lookup: the group stream of the
\* process moves on by one entry and is left there.
CallerGetgrent(p) ==
    /\ pc[p] = "start"
    /\ grp_cursor[p] < Len(GroupLines)
    /\ grp_cursor' = [grp_cursor EXCEPT ![p] = @ + 1]
    /\ UNCHANGED <<acct, pc, ret, storeVars, syncVars, at_call, historyVars,
                   identityVars, scanned, installed_by>>

Login(p) ==
    \/ LoginSetgroups(p)
    \/ LoginSetgid(p)
    \/ LoginSetuid(p)

IdentityStep(p) ==
    \/ CallerGetgrent(p)
    \/ Lookup(p)
    \/ Login(p)

IdentityNext == IdentityStep("p1")

SpecIdentity == Init /\ [][IdentityNext]_vars

-----------------------------------------------------------------------------
(* Two processes on the same stores: each looks an account up, may delete  *)
(* its password, and calls sync() once                                     *)

\* The accounts the two processes work on: two entries of both stores that
\* share a uid.
ConcurrentUsers == {"alice", "carol"}

\* Both stores hold MaxEntries lines.
ConcurrentInit ==
    /\ Init
    /\ passwd_db = FirstLines(PasswdLines, MaxEntries)
    /\ shadow_db = FirstLines(ShadowLines, MaxEntries)

\* p has not called sync() so far.
NotSynced(p) == ret[p].op # "sync" /\ pc[p] \in {"start", "idle"}

ConcurrentStep(p) ==
    \/ \E username \in ConcurrentUsers : from_name(p, username)
    \/ NotSynced(p) /\ DeletePassword(p) /\ UNCHANGED historyVars
    \/ NotSynced(p) /\ SyncGeneratePasswd(p)
    \/ SyncGenerateShadow(p)
    \/ SyncMkstempPasswd(p)
    \/ SyncMkstempShadow(p)
    \/ SyncFchmod(p)
    \/ SyncWritePasswd(p)
    \/ SyncWriteShadow(p)
    \/ SyncClose(p)
    \/ SyncRenamePasswd(p)
    \/ SyncRenameShadow(p)

ConcurrentNext == \E p \in Procs : ConcurrentStep(p)

SpecConcurrent == ConcurrentInit /\ [][ConcurrentNext]_vars

-----------------------------------------------------------------------------
(* Properties of authenticate() *)

\* What the credential states call for: never for the null hash, always for
\* the empty one, and for any other exactly when it is the SHA-256 hash
\* string of the password under the salt it carries.
Verifies(m_password_hash, password) ==
    IF m_password_hash.null
    THEN FALSE
    ELSE IF m_password_hash.chars = <<>>
    THEN TRUE
    ELSE \E salt \in Salts : m_password_hash.chars = HashString(password, salt)

\* The hash values a credential can hold: null, empty, junk, bare markers,
\* and hash strings behind zero, one or two markers.
CredentialStates ==
    {Null, Str(<<>>), Str(<<"x">>), Str(<<"!">>), Str(<<"!", "!">>)}
      \cup {Str(marks \o HashString(k, s)) :
              marks \in {<<>>, <<"!">>, <<"!", "!">>}, k \in Passwords, s \in Salts}

AuthenticateReturned(p) == pc[p] = "idle" /\ ret[p].op = "authenticate"

\* C1: authenticate(secret) returns false for the null (absent) credential,
\* true for the empty one, and otherwise exactly whether the recomputed hash
\* of the secret is the stored string; and an authenticate() call changes no
\* field of the account.
C1_AuthenticateByCredentialState ==
    /\ [](/\ \A p \in Procs :
                AuthenticateReturned(p) =>
                    ret[p].val = Bool(Verifies(acct[p].m_password_hash, ret[p].arg))
          /\ \A h \in CredentialStates, password \in Passwords :
                authenticate(h, password) = Verifies(h, password))
    /\ [][\A p \in Procs, password \in Passwords :
            Authenticate(p, password) => acct' = acct]_vars

\* C1 witness: authenticate() has returned true for a credential that is a
\* hash string, and false for the same account is possible too (another
\* password exists).
C1_Witness ==
    /\ AuthenticateReturned("p1")
    /\ ret["p1"].val = "true"
    /\ acct["p1"].m_password_hash.chars # <<>>
    /\ \E password \in Passwords :
          ~authenticate(acct["p1"].m_password_hash, password)

-----------------------------------------------------------------------------
(* Properties of sync() *)

SyncReturned(p) == pc[p] = "idle" /\ ret[p].op = "sync"

SyncSucceeded(p) == SyncReturned(p) /\ ret[p].val = "true"

\* sync() returned after the first rename failed: the passwd temporary file
\* is still there.
FailedFirstRename(p) == SyncReturned(p) /\ tmp_passwd[p].exists

\* sync() returned after the second rename failed: the passwd temporary file
\* has been moved, the shadow one is still there.
FailedSecondRename(p) ==
    SyncReturned(p) /\ ~tmp_passwd[p].exists /\ tmp_shadow[p].exists

\* An entry the generators do not take for the account's.
UnrelatedPasswdLine(a, line) == line[3] # a.m_uid

UnrelatedShadowLine(a, line) == line[1] # a.m_username

\* C2 as stated: after a successful sync() every unrelated entry of both
\* stores is where it was and identical in every field, the attribute
\* store's marker field included.
C2_UnrelatedEntriesIdentical ==
    \A p \in Procs :
        SyncSucceeded(p) =>
            /\ Len(passwd_db) = Len(at_call[p][1])
            /\ Len(shadow_db) = Len(at_call[p][2])
            /\ \A i \in 1..Len(at_call[p][1]) :
                  UnrelatedPasswdLine(acct[p], at_call[p][1][i]) =>
                      passwd_db[i] = at_call[p][1][i]
            /\ \A i \in 1..Len(at_call[p][2]) :
                  UnrelatedShadowLine(acct[p], at_call[p][2][i]) =>
                      shadow_db[i] = at_call[p][2][i]

\* C2 amended: after a successful sync() every attribute-store entry with
\* another uid and every credential-store entry with another name is where
\* it was; the credential-store entries are identical in every field, the
\* attribute-store entries in every field but the marker, which is "!".
C2_UnrelatedEntriesKeptButMarker ==
    \A p \in Procs :
        SyncSucceeded(p) =>
            /\ Len(passwd_db) = Len(at_call[p][1])
            /\ Len(shadow_db) = Len(at_call[p][2])
            /\ \A i \in 1..Len(at_call[p][1]) :
                  UnrelatedPasswdLine(acct[p], at_call[p][1][i]) =>
                      passwd_db[i] = [at_call[p][1][i] EXCEPT ![2] = "!"]
            /\ \A i \in 1..Len(at_call[p][2]) :
                  UnrelatedShadowLine(acct[p], at_call[p][2][i]) =>
                      shadow_db[i] = at_call[p][2][i]

\* C2 witness: a sync() succeeded on stores of three entries each, two of
\* them unrelated in each store, and changed the credential store.
C2_Witness ==
    /\ SyncSucceeded("p1")
    /\ Len(at_call["p1"][1]) = 3
    /\ Len(at_call["p1"][2]) = 3
    /\ Cardinality({i \in 1..3 :
            UnrelatedPasswdLine(acct["p1"], at_call["p1"][1][i])}) = 2
    /\ Cardinality({i \in 1..3 :
            UnrelatedShadowLine(acct["p1"], at_call["p1"][2][i])}) = 2
    /\ shadow_db # at_call["p1"][2]

\* C3 as stated: when the second rename fails after the first succeeded, the
\* caller gets a PartialInstall result, not the one a failed first rename
\* gives, and the attribute store is new while the credential store is old.
C3_PartialInstallReported ==
    \A p \in Procs :
        FailedSecondRename(p) =>
            /\ ret[p].val = "PartialInstall"
            /\ passwd_db = new_passwd_file_content[p].lines
            /\ shadow_db = at_call[p][2]

\* C3 amended: when the second rename fails after the first succeeded, the
\* caller gets false, the very value a failed first rename gives, and the
\* attribute store is new while the credential store is old.
C3_PartialInstallReturnsFalse ==
    \A p \in Procs :
        /\ FailedSecondRename(p) =>
              /\ ret[p].val = "false"
              /\ passwd_db = new_passwd_file_content[p].lines
              /\ shadow_db = at_call[p][2]
        /\ FailedFirstRename(p) => ret[p].val = "false"

\* C3 witness: the second rename failed after a first rename that changed
\* the attribute store, with a credential text that differs from the store.
C3_Witness ==
    /\ FailedSecondRename("p1")
    /\ passwd_db # at_call["p1"][1]
    /\ new_shadow_file_content["p1"].lines # shadow_db

\* Both temporary files hold the whole generated text and are closed.
TemporariesComplete(p) ==
    /\ ~tmp_passwd[p].open
    /\ ~tmp_shadow[p].open
    /\ tmp_passwd[p].lines = new_passwd_file_content[p].lines
    /\ tmp_shadow[p].lines = new_shadow_file_content[p].lines

\* C4: no rename is attempted before both temporary files are fully written
\* and closed; the attribute store is renamed before the credential store;
\* and when the attribute-store rename fails the credential-store rename is
\* not attempted, failure is returned and both stores are as before the call.
C4_RenamesAfterCloseInOrder ==
    /\ [](\A p \in Procs :
            /\ pc[p] \in {"rename_passwd", "rename_shadow"} => TemporariesComplete(p)
            /\ pc[p] = "rename_passwd" => tmp_passwd[p].exists /\ tmp_shadow[p].exists
            /\ pc[p] = "rename_shadow" => ~tmp_passwd[p].exists /\ tmp_shadow[p].exists
            /\ FailedFirstRename(p) =>
                  /\ ret[p].val = "false"
                  /\ tmp_shadow[p].exists
                  /\ <<passwd_db, shadow_db>> = at_call[p])
    /\ [][/\ passwd_db' # passwd_db =>
                \E p \in Procs : pc[p] = "rename_passwd" /\ TemporariesComplete(p)
          /\ shadow_db' # shadow_db =>
                \E p \in Procs : /\ pc[p] = "rename_shadow"
                                 /\ TemporariesComplete(p)
                                 /\ ~tmp_passwd[p].exists]_vars

\* C4 witness: the first rename failed on a call that had text to install
\* that differs from both stores.
C4_Witness ==
    /\ FailedFirstRename("p1")
    /\ tmp_passwd["p1"].lines # passwd_db
    /\ tmp_shadow["p1"].lines # shadow_db

\* C5: when sync() fails before the renames (an enumeration fault, a failed
\* mkstemp, fchmod or write), both stores hold what they held before the call.
C5_FailureBeforeRenameKeepsStores ==
    \A p \in Procs :
        pc[p] \in {"crashed", "generate_shadow", "mkstemp_passwd", "mkstemp_shadow",
                   "fchmod", "write_passwd", "write_shadow", "close",
                   "rename_passwd"} =>
            <<passwd_db, shadow_db>> = at_call[p]

\* C5 witness: sync() died on a short write of the credential text, after
\* the whole attribute text was written.
C5_Witness ==
    /\ pc["p1"] = "crashed"
    /\ tmp_passwd["p1"].lines = new_passwd_file_content["p1"].lines
    /\ tmp_passwd["p1"].lines # passwd_db
    /\ tmp_shadow["p1"].exists
    /\ Len(tmp_shadow["p1"].lines) < Len(new_shadow_file_content["p1"].lines)

\* C6 as stated: every failure of sync() is returned to the caller; no
\* failure path ends the process.
C6_EveryFailureReturned ==
    \A p \in Procs : pc[p] # "crashed"

-----------------------------------------------------------------------------
(* Properties of the password mutators, over the history of calls *)

Hash(p) == acct[p].m_password_hash

\* The last two mutators p called were set_password_enabled(enabled), twice.
EnabledTwice(p, enabled) ==
    /\ prev[p].op = "set_password_enabled" /\ prev[p].arg = Bool(enabled)
    /\ last[p].op = "set_password_enabled" /\ last[p].arg = Bool(enabled)

\* The last two mutators p called were set_password_enabled(false), then
\* set_password_enabled(true).
DisabledThenEnabled(p) ==
    /\ prev[p].op = "set_password_enabled" /\ prev[p].arg = "false"
    /\ last[p].op = "set_password_enabled" /\ last[p].arg = "true"

Marked(h) == h.chars # <<>> /\ h.chars[1] = "!"

MarkedTwice(h) == Len(h.chars) >= 2 /\ h.chars[1] = "!" /\ h.chars[2] = "!"

\* C7 as stated: for every password_hash, those that begin with several '!'
\* included, a second set_password_enabled(true) leaves what the first gave,
\* and a second set_password_enabled(false) leaves what the first gave.
C7_SetPasswordEnabledIdempotent ==
    \A p \in Procs, enabled \in BOOLEAN :
        EnabledTwice(p, enabled) => Hash(p) = last[p].pre

\* C7 amended: a second set_password_enabled(false) leaves what the first
\* gave for every password_hash; a second set_password_enabled(true) leaves
\* what the first gave for every password_hash that does not begin with two
\* or more '!'.
C7_IdempotentUnlessMarkedTwice ==
    \A p \in Procs :
        /\ EnabledTwice(p, FALSE) => Hash(p) = last[p].pre
        /\ EnabledTwice(p, TRUE) /\ ~MarkedTwice(prev[p].pre) =>
              Hash(p) = last[p].pre

\* C7 witness: set_password_enabled(true) was called twice on a hash with one
\* '!', which the first call took off.
C7_Witness ==
    /\ EnabledTwice("p1", TRUE)
    /\ Marked(prev["p1"].pre)
    /\ ~MarkedTwice(prev["p1"].pre)
    /\ last["p1"].pre # prev["p1"].pre

\* C8 as stated: for every password_hash h, set_password_enabled(false) and
\* then set_password_enabled(true) leave exactly h.
C8_DisableEnableRestores ==
    \A p \in Procs :
        DisabledThenEnabled(p) => Hash(p) = prev[p].pre

\* C8 amended: for every password_hash h that does not begin with '!',
\* set_password_enabled(false) and then set_password_enabled(true) leave
\* exactly h.
C8_DisableEnableRestoresUnmarked ==
    \A p \in Procs :
        DisabledThenEnabled(p) /\ ~Marked(prev[p].pre) => Hash(p) = prev[p].pre

\* C8 witness: a hash string without '!' was disabled, then enabled.
C8_Witness ==
    /\ DisabledThenEnabled("p1")
    /\ ~Marked(prev["p1"].pre)
    /\ Len(prev["p1"].pre.chars) > 1
    /\ Marked(last["p1"].pre)

\* C9: after set_password(s), whatever the credential was before, and until
\* another mutator is called, authenticate(s) is true and authenticate(t) is
\* false for every other secret t.
C9_SetPasswordThenAuthenticate ==
    \A p \in Procs :
        last[p].op = "set_password" =>
            /\ \A t \in Passwords :
                  authenticate(Hash(p), t) = (t = last[p].arg)
            /\ AuthenticateReturned(p) =>
                  ret[p].val = Bool(ret[p].arg = last[p].arg)

\* C9 witness: set_password() replaced a locked hash, and authenticate() with
\* another secret has returned false since.
C9_Witness ==
    /\ last["p1"].op = "set_password"
    /\ Marked(last["p1"].pre)
    /\ AuthenticateReturned("p1")
    /\ ret["p1"].arg # last["p1"].arg
    /\ ret["p1"].val = "false"

\* delete_password() returned just now.
JustDeleted(p) == pc[p] = "idle" /\ ret[p].op = "delete_password"

\* p has called delete_password() and none of the mutators in calls since.
DeletedAndSince(p, calls) ==
    since_delete[p].deleted /\ since_delete[p].calls \cap calls = {}

AuthenticatesAll(p) ==
    /\ \A password \in Passwords : authenticate(Hash(p), password)
    /\ AuthenticateReturned(p) => ret[p].val = "true"

\* C10 as stated: delete_password() leaves the empty, not the null,
\* credential, so has_password() is false; from then on authenticate() is
\* true for every secret until set_password() is called, whatever
\* set_password_enabled() calls come between.
C10_DeleteThenAlwaysAuthenticates ==
    \A p \in Procs :
        /\ JustDeleted(p) =>
              ~Hash(p).null /\ Hash(p).chars = <<>> /\ ~has_password(Hash(p))
        /\ DeletedAndSince(p, {<<"set_password", "">>}) => AuthenticatesAll(p)

\* C10 amended: delete_password() leaves the empty, not the null, credential,
\* so has_password() is false; from then on authenticate() is true for every
\* secret until set_password() or set_password_enabled(false) is called.
C10_DeleteThenAuthenticatesUntilLocked ==
    \A p \in Procs :
        /\ JustDeleted(p) =>
              ~Hash(p).null /\ Hash(p).chars = <<>> /\ ~has_password(Hash(p))
        /\ DeletedAndSince(p, {<<"set_password", "">>,
                               <<"set_password_enabled", "false">>}) =>
              AuthenticatesAll(p)

\* C10 witness: after delete_password() of a credential that was a hash, and
\* a set_password_enabled(true) call, authenticate() returned true.
C10_Witness ==
    /\ since_delete["p1"].deleted
    /\ since_delete["p1"].calls = {<<"set_password_enabled", "true">>}
    /\ prev["p1"].op = "delete_password"
    /\ has_password(prev["p1"].pre)
    /\ AuthenticateReturned("p1")
    /\ ret["p1"].val = "true"

\* The last mutator p called was set_password(), and it left the SHA-256
\* hash string of its argument under one of the salts.
SetPasswordLeftHash(p) ==
    /\ last[p].op = "set_password"
    /\ \E salt \in Salts : Hash(p) = Str(HashString(last[p].arg, salt))

\* C11 as stated: set_password(secret) leaves hash(secret, fresh salt) as the
\* credential and does not touch the marker: the hash begins with '!' after
\* the call exactly when it did before.
C11_SetPasswordKeepsMarker ==
    \A p \in Procs :
        last[p].op = "set_password" =>
            /\ SetPasswordLeftHash(p)
            /\ Marked(Hash(p)) = Marked(last[p].pre)

\* C11 amended: set_password(secret) leaves hash(secret, fresh salt) as the
\* credential, and that string does not begin with '!', whether the hash
\* before the call did or not.
C11_SetPasswordClearsMarker ==
    \A p \in Procs :
        last[p].op = "set_password" =>
            /\ SetPasswordLeftHash(p)
            /\ ~Marked(Hash(p))

\* C11 witness: set_password() was called on a hash that began with '!'.
C11_Witness ==
    /\ SetPasswordLeftHash("p1")
    /\ Marked(last["p1"].pre)
    /\ Len(last["p1"].pre.chars) > 1

\* The last mutator p called was set_password_enabled(false).
JustDisabled(p) ==
    last[p].op = "set_password_enabled" /\ last[p].arg = "false"

\* C12: whenever password_hash begins with '!', the bare "!" that disabling
\* the empty credential gives included, authenticate() returns false for
\* every secret; set_password_enabled(false) leaves such a hash, and the hash
\* only stops beginning with '!' in a call of set_password_enabled(true),
\* set_password() or delete_password().
C12_LockedUntilUnlocked ==
    /\ [](/\ \A p \in Procs :
                /\ JustDisabled(p) => Marked(Hash(p))
                /\ Marked(Hash(p)) =>
                      /\ \A password \in Passwords :
                            ~authenticate(Hash(p), password)
                      /\ AuthenticateReturned(p) => ret[p].val = "false"
          /\ \A h \in CredentialStates, password \in Passwords :
                Marked(h) => ~authenticate(h, password))
    /\ [][\A p \in Procs :
            Marked(Hash(p)) /\ ~Marked(acct'[p].m_password_hash) =>
                \/ SetPasswordEnabled(p, TRUE)
                \/ \E password \in Passwords, random_data \in Salts :
                      SetPassword(p, password, random_data)
                \/ DeletePassword(p)]_vars

\* C12 witness: the empty credential was disabled, a second
\* set_password_enabled(false) came after, and authenticate() has returned
\* false since.
C12_Witness ==
    /\ JustDisabled("p1")
    /\ prev["p1"].op = "set_password_enabled"
    /\ prev["p1"].arg = "false"
    /\ prev["p1"].pre = Str(<<>>)
    /\ Hash("p1") = Str(<<"!">>)
    /\ AuthenticateReturned("p1")
    /\ ret["p1"].val = "false"

-----------------------------------------------------------------------------
(* Properties of login() *)

LoginSteps == <<"setgroups", "setgid", "setuid">>

LoginReturned(p) == pc[p] = "idle" /\ ret[p].op = "login"

InLogin(p) == pc[p] \in {"setgid", "setuid"}

\* The credentials that the first n steps of login() on account a make of
\* the credentials from.
AfterSteps(from, a, n) ==
    [groups |-> IF n >= 1 THEN a.m_extra_gids ELSE from.groups,
     gid |-> IF n >= 2 THEN a.m_gid ELSE from.gid,
     uid |-> IF n >= 3 THEN a.m_uid ELSE from.uid]

\* C13: login() applies the supplementary groups, then the primary group,
\* then the uid, in that order; the uid is not applied unless both group
\* steps took effect; when a step fails login() returns false with the later
\* steps not applied and the earlier ones still in effect; and it returns
\* true only when all three took effect.
C13_LoginStepsInOrder ==
    /\ [](\A p \in Procs :
            /\ pc[p] = "setgid" => login_hist[p].applied = <<"setgroups">>
            /\ pc[p] = "setuid" =>
                  login_hist[p].applied = <<"setgroups", "setgid">>
            /\ InLogin(p) \/ LoginReturned(p) =>
                  /\ login_hist[p].applied =
                        SubSeq(LoginSteps, 1, Len(login_hist[p].applied))
                  /\ cred[p] = AfterSteps(login_hist[p].from, acct[p],
                                          Len(login_hist[p].applied))
            /\ LoginReturned(p) =>
                  (ret[p].val = "true" <=> login_hist[p].applied = LoginSteps))
    /\ [][\A p \in Procs :
            /\ cred'[p].groups # cred[p].groups => pc[p] = "idle"
            /\ cred'[p].gid # cred[p].gid => pc[p] = "setgid"
            /\ cred'[p].uid # cred[p].uid =>
                  /\ pc[p] = "setuid"
                  /\ cred[p].groups = acct[p].m_extra_gids
                  /\ cred[p].gid = acct[p].m_gid]_vars

\* C13 witness: login() returned false after setgroups() changed the groups
\* of the process and setgid() failed; the groups are still the new ones.
C13_Witness ==
    /\ LoginReturned("p1")
    /\ ret["p1"].val = "false"
    /\ login_hist["p1"].applied = <<"setgroups">>
    /\ cred["p1"].groups # login_hist["p1"].from.groups
    /\ cred["p1"].uid = login_hist["p1"].from.uid

-----------------------------------------------------------------------------
(* What the password mutators and sync() leave alone *)

\* The step is a call by p of one of the three password mutators.
PasswordMutator(p) ==
    \/ \E password \in Passwords, random_data \in Salts :
          SetPassword(p, password, random_data)
    \/ \E enabled \in BOOLEAN : SetPasswordEnabled(p, enabled)
    \/ DeletePassword(p)

\* C14: set_password(), set_password_enabled() and delete_password() change
\* nothing but m_password_hash: both stores and the account's username, uid,
\* gid, gecos, home directory, shell and supplementary groups are as before;
\* and a store changes only in a step of sync().
C14_SettersChangeOnlyHash ==
    /\ [][\A p \in Procs :
            PasswordMutator(p) =>
                /\ passwd_db' = passwd_db
                /\ shadow_db' = shadow_db
                /\ acct' = [acct EXCEPT ![p].m_password_hash =
                                           acct'[p].m_password_hash]]_vars
    /\ [][passwd_db' # passwd_db \/ shadow_db' # shadow_db =>
            \E p \in Procs : pc[p] \in {"rename_passwd", "rename_shadow"}]_vars

\* C14 witness: delete_password() has emptied the hash of an account that is
\* in supplementary groups, and /etc/shadow still has the hash it had.
C14_Witness ==
    /\ JustDeleted("p1")
    /\ Hash("p1") = Str(<<>>)
    /\ acct["p1"].m_extra_gids # <<>>
    /\ has_pwnam(shadow_db, acct["p1"].m_username)
    /\ getspnam(shadow_db, acct["p1"].m_username).sp_pwdp.chars # <<>>

-----------------------------------------------------------------------------
(* Properties of from_name() and from_uid() *)

\* The last call of p that returned was a lookup.
LookupReturned(p) == ret[p].op \in {"from_name", "from_uid"}

ScanFault(p) == scanned[p].pw = "fault" \/ scanned[p].sp = "fault"

RecordAbsent(p) == scanned[p].pw = "absent" \/ scanned[p].sp = "absent"

\* C15 as stated: a lookup returns an Account only when both records were
\* found, "No such user" exactly when a record was absent and no scan
\* failed, and the system error exactly when one of the two scans failed.
C15_LookupErrorsExact ==
    \A p \in Procs :
        LookupReturned(p) =>
            /\ ret[p].val = "ok" =>
                  scanned[p] = [pw |-> "found", sp |-> "found"]
            /\ ret[p].val = "No such user" <=>
                  RecordAbsent(p) /\ ~ScanFault(p)
            /\ ret[p].val = "strerror" <=> ScanFault(p)

\* C16 as stated: whatever the group scans of the process before the lookup
\* left behind, the Account's supplementary groups are the gids of all the
\* entries of /etc/group that list its username, from the first entry to the
\* last, in file order.
C16_GroupsScannedFromFirstEntry ==
    \A p \in Procs :
        pc[p] # "start" =>
            acct[p].m_extra_gids = get_gids(acct[p].m_username, 0)

-----------------------------------------------------------------------------
(* What a successful sync() leaves in the two stores *)

\* C17: after a successful sync() every entry of /etc/passwd, the account's
\* and every other, has "!" as its marker field, and m_password_hash is not
\* in /etc/passwd: the file is the same whatever the hash is.
C17_PasswdMarkerIsPlaceholder ==
    \A p \in Procs :
        SyncSucceeded(p) =>
            /\ \A i \in 1..Len(passwd_db) : passwd_db[i][2] = "!"
            /\ \A h \in CredentialStates :
                  passwd_db = generate_passwd_file(
                                  [acct[p] EXCEPT !.m_password_hash = h],
                                  at_call[p][1], FALSE).lines

\* C17 witness: a sync() of an account whose credential is a hash string
\* succeeded on an /etc/passwd that had another marker in another entry.
C17_Witness ==
    /\ SyncSucceeded("p1")
    /\ Len(Hash("p1").chars) > 1
    /\ \E i \in 1..Len(at_call["p1"][1]) :
          /\ UnrelatedPasswdLine(acct["p1"], at_call["p1"][1][i])
          /\ at_call["p1"][1][i][2] # "!"

\* The Account that from_name(username) makes of the stores as they are.
Reloaded(username) ==
    Account(getpwnam(passwd_db, username), getspnam(shadow_db, username),
            get_gids(username, 0))

\* C18: after a successful sync() on an /etc/shadow that has an entry for
\* m_username, that entry has m_password_hash and the seven aging fields it
\* had before, and from_name(m_username) finds both records and gives an
\* Account with the same password hash, uid, gid, gecos, home directory and
\* shell.
C18_SyncedAccountReloads ==
    \A p \in Procs :
        SyncSucceeded(p) /\ has_pwnam(at_call[p][2], acct[p].m_username) =>
            /\ Len(shadow_db) = Len(at_call[p][2])
            /\ \A i \in 1..Len(at_call[p][2]) :
                  at_call[p][2][i][1] = acct[p].m_username =>
                      shadow_db[i] =
                          [at_call[p][2][i] EXCEPT ![2] = Hash(p).chars]
            /\ has_pwnam(passwd_db, acct[p].m_username)
            /\ has_pwnam(shadow_db, acct[p].m_username)
            /\ LET account == Reloaded(acct[p].m_username)
               IN  /\ account.m_password_hash = acct[p].m_password_hash
                   /\ account.m_uid = acct[p].m_uid
                   /\ account.m_gid = acct[p].m_gid
                   /\ account.m_gecos = acct[p].m_gecos
                   /\ account.m_home_directory = acct[p].m_home_directory
                   /\ account.m_shell = acct[p].m_shell

\* C18 witness: a sync() succeeded that put a new hash string in the entry
\* of /etc/shadow.
C18_Witness ==
    /\ SyncSucceeded("p1")
    /\ shadow_db # at_call["p1"][2]
    /\ Len(Hash("p1").chars) > 1
    /\ ~Marked(Hash("p1"))

-----------------------------------------------------------------------------
(* Two sync() calls at once *)

\* What belongs to process p alone.
Own(p) ==
    <<acct[p], pc[p], ret[p], new_passwd_file_content[p],
      new_shadow_file_content[p], tmp_passwd[p], tmp_shadow[p]>>

\* The edit p made in memory is not in /etc/shadow.
EditLost(p) ==
    /\ has_pwnam(shadow_db, acct[p].m_username)
    /\ getspnam(shadow_db, acct[p].m_username).sp_pwdp # Hash(p)

\* C19: when two processes run sync() at once, no step of one touches the
\* other's temporary files or its result, so each rename has its own whole
\* file to install and neither call fails because of the other; each store
\* holds exactly the text of the process whose rename onto it was the last,
\* whatever the other process installed before.
C19_LastRenameWins ==
    /\ [](\A p \in Procs :
            /\ pc[p] = "rename_passwd" =>
                  tmp_passwd[p].exists /\ TemporariesComplete(p)
            /\ pc[p] = "rename_shadow" =>
                  tmp_shadow[p].exists /\ TemporariesComplete(p)
            /\ installed_by.passwd = p =>
                  passwd_db = new_passwd_file_content[p].lines
            /\ installed_by.shadow = p =>
                  shadow_db = new_shadow_file_content[p].lines)
    /\ [][\A p \in Procs, q \in Procs :
            p # q /\ ConcurrentStep(q) => Own(p)' = Own(p)]_vars

\* C19 witness: both sync() calls returned true, p1's rename onto
\* /etc/shadow was the last, and the password p2 deleted is still in
\* /etc/shadow.
C19_Witness ==
    /\ SyncSucceeded("p1")
    /\ SyncSucceeded("p2")
    /\ installed_by.shadow = "p1"
    /\ acct["p1"].m_username # acct["p2"].m_username
    /\ Hash("p2") = Str(<<>>)
    /\ EditLost("p2")

\* C20: in every step, a failed or crashing one and a step of the other
\* process included, a store that changes becomes the whole text that one
\* sync() call generated; nothing else is ever at /etc/passwd or /etc/shadow.
C20_StoresReplacedWhole ==
    [][/\ passwd_db' # passwd_db =>
            \E p \in Procs :
                /\ ~new_passwd_file_content[p].null
                /\ passwd_db' = new_passwd_file_content[p].lines
       /\ shadow_db' # shadow_db =>
            \E p \in Procs :
                /\ ~new_shadow_file_content[p].null
                /\ shadow_db' = new_shadow_file_content[p].lines]_vars

\* C20 witness: p1 died on a short write() that left part of the passwd text
\* in its temporary file, and p2's sync() has replaced both stores.
C20_Witness ==
    /\ pc["p1"] = "crashed"
    /\ tmp_passwd["p1"].exists
    /\ tmp_passwd["p1"].lines # <<>>
    /\ Len(tmp_passwd["p1"].lines) < Len(new_passwd_file_content["p1"].lines)
    /\ SyncSucceeded("p2")
    /\ <<passwd_db, shadow_db>> # at_call["p2"]

====
